---- MODULE Spec2Model ----
(***************************************************************************)
(* Model of the blog server's image store (src/server/images.rs) and of    *)
(* the server functions that drive it (src/api.rs) over the post table     *)
(* (src/server/persistence/database.rs).                                   *)
(*                                                                         *)
(* Strings are TLA+ strings, paths are built by concatenation exactly as   *)
(* format! builds them.  A byte buffer is a record [fmt, pixels, enc]: the *)
(* container format, the pixel content and the encoder that produced it.   *)
(***************************************************************************)
EXTENDS Integers, Sequences, FiniteSets, TLC

(***************************************************************************)
(* Bounds of the model.                                                    *)
(***************************************************************************)
NumReqs == 2      \* request handlers that can be in flight at once
MaxUuids == 2     \* values Uuid::new_v4 can return in one run
MaxPosts == 1     \* rows the post table hands out ids for

Reqs == 1..NumReqs

(***************************************************************************)
(* Option and Result values.                                               *)
(***************************************************************************)
None == << >>
Some(v) == << v >>
IsSome(o) == Len(o) = 1
Unwrap(o) == o[1]

Ok(v) == [ok |-> TRUE, val |-> v, err |-> "-", msg |-> "-"]
Err(e) == [ok |-> FALSE, val |-> << >>, err |-> e, msg |-> "-"]

\* An error of variant e that wraps a source error whose Display is m.
Raise(e, m) == [ok |-> FALSE, val |-> << >>, err |-> e, msg |-> m]

\* Display of the std::io::Error values the file system hands out.
NotFound == "No such file or directory (os error 2)"
PermissionDenied == "Permission denied (os error 13)"
NoSpace == "No space left on device (os error 28)"

\* #[display(..)] of AppImageError (images.rs) and DatabaseError
\* (database.rs): a prefix per variant, then the source error.
Display(e) ==
  (IF e.err = "Download" THEN "Download error: "
   ELSE IF e.err = "Decode" THEN "Image error: "
   ELSE IF e.err = "Io" THEN "IO error: "
   ELSE IF e.err = "Sql" THEN "SQL error: "
   ELSE "Connection error: ") \o e.msg

\* The HTTP status with which a server function's result is answered: an
\* Err(ServerFnError) of any content is a 500.
StatusOf(res) == IF res.ok THEN 200 ELSE 500

\* The `?` and map_err(Into::into) of a server function: any
\* std::error::Error becomes ServerFnError::ServerError(e.to_string()).
ServerFnError_from(e) == Raise("ServerError", Display(e))

(***************************************************************************)
(* Identifiers.  UuidTable lists textual UUID-v4 values; the first         *)
(* MaxUuids of them are the values new_v4 can produce in a run.            *)
(***************************************************************************)
UuidTable ==
  << "123e4567-e89b-42d3-a456-426614174000",
     "12f0a1b2-c3d4-4e5f-8a9b-0c1d2e3f4a5b",
     "9b2e4567-0000-4111-8222-333344445555",
     "9b7744aa-bbbb-4ccc-9ddd-eeeeffff0000",
     "c0ffee00-1234-4abc-8def-0123456789ab" >>

Min(a, b) == IF a < b THEN a ELSE b

UuidPool == { UuidTable[i] : i \in 1..Min(MaxUuids, Len(UuidTable)) }

\* Uuid::new_v4(): a random version-4 UUID; 122 random bits, so a value
\* that no earlier call in the run has returned.
new_v4_reused(used) == UuidPool
new_v4(used) == UuidPool \ used

\* Uuid::to_string(): the hyphenated lower-case form, 36 characters.
IsUuidString(s) == s \in { UuidTable[i] : i \in 1..Len(UuidTable) }

(***************************************************************************)
(* Path derivation (images.rs, image_path and the ImagePath impls).        *)
(***************************************************************************)
Kinds == {"post", "avatar"}

\* &uuid[0..2] and &uuid[2..4] panic when the string is shorter.
image_path_panics(uuid) == Len(uuid) < 4

image_path_no_shard(dir, uuid) ==
  "./images/" \o dir \o "/" \o uuid \o ".png"

image_path(dir, uuid) ==
  "./images/" \o dir \o "/" \o SubSeq(uuid, 1, 2) \o "/"
              \o SubSeq(uuid, 3, 4) \o "/" \o uuid \o ".png"

PostImagePath_path(uuid) == image_path("posts", uuid)

AvatarImagePath_path_posts(uuid) == image_path("posts", uuid)
AvatarImagePath_path(uuid) == image_path("avatars", uuid)

\* <I as ImagePath>::path, dispatched on the newtype.
path(kind, uuid) ==
  IF kind = "post" THEN PostImagePath_path(uuid) ELSE AvatarImagePath_path(uuid)

\* Path::parent(): the path without its last component.
RECURSIVE LastSlash(_, _)
LastSlash(p, i) ==
  IF i = 0 THEN 0
  ELSE IF SubSeq(p, i, i) = "/" THEN i ELSE LastSlash(p, i - 1)

parent(p) == SubSeq(p, 1, LastSlash(p, Len(p)) - 1)

(***************************************************************************)
(* Byte buffers and images.                                                *)
(***************************************************************************)
Bytes(fmt, pixels, enc) == [fmt |-> fmt, pixels |-> pixels, enc |-> enc]

PngA == Bytes("png", "A", "client")
JpegA == Bytes("jpeg", "A", "client")
PngB == Bytes("png", "B", "remote")
Html == Bytes("html", "-", "remote")
Truncated == Bytes("truncated", "-", "image-rs")

\* Display of the ImageError the PNG decoder returns.
InvalidPng == "Format error decoding Png: Invalid PNG signature."

\* ImageReader::with_format(.., ImageFormat::Png).decode(): the format is
\* pinned to PNG; anything else is an ImageError.
decode_any_format(image_bytes) ==
  IF image_bytes.fmt \in {"png", "jpeg"}
  THEN Ok(image_bytes.pixels) ELSE Raise("Decode", InvalidPng)

decode(image_bytes) ==
  IF image_bytes.fmt = "png" THEN Ok(image_bytes.pixels)
  ELSE Raise("Decode", InvalidPng)

encode_jpeg(img) == Bytes("jpeg", img, "image-rs")

\* DynamicImage::save(path): the format comes from the .png extension; the
\* image is re-encoded by the library's PNG encoder.
encode_png(img) == Bytes("png", img, "image-rs")

\* process_image(bytes)
process_image(bytes) == decode(bytes)

(***************************************************************************)
(* What the remote end of an avatar URL can answer.                        *)
(***************************************************************************)
Fetch(net, status, body) == [net |-> net, status |-> status, body |-> body]

FetchOutcomes ==
  { Fetch("error", 0, Html),
    Fetch("ok", 200, PngB),
    Fetch("ok", 200, Html),
    Fetch("ok", 404, Html),
    Fetch("ok", 404, PngB) }

\* Display of the reqwest::Error of a failed request.
SendFailed == "error sending request"

\* download(url): reqwest::get(&url).await?.bytes().await; the status of
\* the response is never inspected (no error_for_status).
download_checks_status(f) ==
  IF f.net = "ok" /\ f.status \in 200..299 THEN Ok(f.body)
  ELSE Raise("Download", SendFailed)

download(f) ==
  IF f.net = "ok" THEN Ok(f.body) ELSE Raise("Download", SendFailed)

\* process_avatar(url): download, then decode.
process_avatar(f) ==
  IF download(f).ok THEN decode(download(f).val) ELSE download(f)

AvatarUrl == "http://example.org/avatar.png"

(***************************************************************************)
(* State.                                                                  *)
(***************************************************************************)
VARIABLES
  pc,       \* pc[r]: where request r's handler stands
  call,     \* call[r]: the server function and its client-supplied arguments
  image,    \* image[r]: outcome of process_image, once evaluated
  avatar,   \* avatar[r]: the fetched response and the outcome of process_avatar
  sv,       \* sv[r][k]: the spawn_blocking task of save::<k>
  dl,       \* dl[r][k]: the call of delete::<k> and its spawn_blocking task
  ld,       \* ld[r]: the call of load and its spawn_blocking task
  imgres,   \* imgres[r]: what process_images returned, once it has
  deleted,  \* deleted[r]: the row Database::delete returned
  resp,     \* resp[r]: what the server function returned, once it has
  fs,       \* the image directory: file path -> file content
  dirs,     \* the directories that exist under ./images
  used,     \* the values new_v4 has returned so far
  db,       \* the blog_post table
  fsops,    \* fsops[r]: file-system calls issued on behalf of request r
  fetches   \* fetches[r]: HTTP fetches started on behalf of request r

vars == << pc, call, image, avatar, sv, dl, ld, imgres, deleted, resp,
           fs, dirs, used, db, fsops, fetches >>

\* A spawn_blocking task: st is "none" (never spawned), "spawned", "dir"
\* (save only: directories created, file not yet written) or "done".
Task(st, arg, uuid, p, res) ==
  [st |-> st, arg |-> arg, uuid |-> uuid, path |-> p, res |-> res]

NoTask == Task("none", "-", "-", "-", Err("-"))
NoTasks == [k \in Kinds |-> NoTask]

NoCall == [op |-> "-", image |-> None, avatar_url |-> None,
           post_id |-> 0, kind |-> "-", uuid |-> None]

FsOp(op, p) == [op |-> op, path |-> p]

Files == DOMAIN fs

Init ==
  /\ pc = [r \in Reqs |-> "idle"]
  /\ call = [r \in Reqs |-> NoCall]
  /\ image = [r \in Reqs |-> None]
  /\ avatar = [r \in Reqs |-> None]
  /\ sv = [r \in Reqs |-> NoTasks]
  /\ dl = [r \in Reqs |-> NoTasks]
  /\ ld = [r \in Reqs |-> NoTask]
  /\ imgres = [r \in Reqs |-> None]
  /\ deleted = [r \in Reqs |-> None]
  /\ resp = [r \in Reqs |-> None]
  /\ fs = [p \in {} |-> Html]
  /\ dirs = {}
  /\ used = {}
  /\ db = {}
  /\ fsops = [r \in Reqs |-> {}]
  /\ fetches = [r \in Reqs |-> 0]

(***************************************************************************)
(* create_blog_post (api.rs) and process_images (images.rs).               *)
(***************************************************************************)
UploadInputs == { None, Some(PngA), Some(JpegA) }
AvatarInputs == { None, Some(AvatarUrl) }

\* A client calls create_blog_post(params); the Database extractor cannot
\* fail, the handler reaches process_images.
create_blog_post(r, img, url) ==
  /\ pc[r] = "idle"
  /\ pc' = [pc EXCEPT ![r] = "process_images"]
  /\ call' = [call EXCEPT ![r] =
       [NoCall EXCEPT !.op = "create_blog_post", !.image = img, !.avatar_url = url]]
  /\ UNCHANGED << image, avatar, sv, dl, ld, imgres, deleted, resp,
                  fs, dirs, used, db, fsops, fetches >>

\* process_images returns res to create_blog_post; on Err the `?` makes the
\* server function return the error at once.
Returns(r, res) ==
  /\ imgres' = [imgres EXCEPT ![r] = Some(res)]
  /\ IF res.ok
     THEN /\ pc' = [pc EXCEPT ![r] = "insert"]
          /\ resp' = resp
     ELSE /\ pc' = [pc EXCEPT ![r] = "done"]
          /\ resp' = [resp EXCEPT ![r] = Some(ServerFnError_from(res))]

\* save(image): the first poll hands the closure to spawn_blocking.
Spawned(img) == Task("spawned", img, "-", "-", Err("-"))

\* (None, None) => Ok((None, None))
process_images_none(r) ==
  /\ pc[r] = "process_images"
  /\ ~IsSome(call[r].image) /\ ~IsSome(call[r].avatar_url)
  /\ Returns(r, Ok(<< None, None >>))
  /\ UNCHANGED << call, image, avatar, sv, dl, ld, deleted,
                  fs, dirs, used, db, fsops, fetches >>

\* (Some(post_image), None): process_image(post_image).await?, then save.
process_images_image(r) ==
  /\ pc[r] = "process_images"
  /\ IsSome(call[r].image) /\ ~IsSome(call[r].avatar_url)
  /\ LET v == process_image(Unwrap(call[r].image)) IN
       /\ image' = [image EXCEPT ![r] = Some(v)]
       /\ IF v.ok
          THEN /\ sv' = [sv EXCEPT ![r]["post"] = Spawned(v.val)]
               /\ pc' = [pc EXCEPT ![r] = "saving"]
               /\ UNCHANGED << imgres, resp >>
          ELSE /\ Returns(r, v)
               /\ sv' = sv
  /\ UNCHANGED << call, avatar, dl, ld, deleted, fs, dirs, used, db,
                  fsops, fetches >>

\* (None, Some(avatar_url)): process_avatar starts the download and
\* suspends on the network.
process_images_avatar(r) ==
  /\ pc[r] = "process_images"
  /\ ~IsSome(call[r].image) /\ IsSome(call[r].avatar_url)
  /\ fetches' = [fetches EXCEPT ![r] = @ + 1]
  /\ pc' = [pc EXCEPT ![r] = "downloading"]
  /\ UNCHANGED << call, image, avatar, sv, dl, ld, imgres, deleted, resp,
                  fs, dirs, used, db, fsops >>

\* A pipelined variant: each input is saved as soon as it is validated.
process_images_both_pipelined(r) ==
  /\ pc[r] = "process_images"
  /\ IsSome(call[r].image) /\ IsSome(call[r].avatar_url)
  /\ LET v == process_image(Unwrap(call[r].image)) IN
       /\ image' = [image EXCEPT ![r] = Some(v)]
       /\ IF v.ok
          THEN /\ fetches' = [fetches EXCEPT ![r] = @ + 1]
               /\ sv' = [sv EXCEPT ![r]["post"] = Spawned(v.val)]
               /\ pc' = [pc EXCEPT ![r] = "downloading"]
               /\ UNCHANGED << imgres, resp >>
          ELSE /\ Returns(r, v)
               /\ fetches' = fetches
               /\ sv' = sv
  /\ UNCHANGED << call, avatar, dl, ld, deleted, fs, dirs, used, db, fsops >>

\* (Some(post_image), Some(avatar_url)): the first poll of
\* try_join!(process_image(..), process_avatar(..)) polls process_image
\* first; it has no suspension point and completes in that poll.  An Err
\* ends the join before process_avatar is polled at all; otherwise
\* process_avatar is polled next and suspends on the download.
process_images_both(r) ==
  /\ pc[r] = "process_images"
  /\ IsSome(call[r].image) /\ IsSome(call[r].avatar_url)
  /\ LET v == process_image(Unwrap(call[r].image)) IN
       /\ image' = [image EXCEPT ![r] = Some(v)]
       /\ IF v.ok
          THEN /\ fetches' = [fetches EXCEPT ![r] = @ + 1]
               /\ pc' = [pc EXCEPT ![r] = "downloading"]
               /\ UNCHANGED << imgres, resp >>
          ELSE /\ Returns(r, v)
               /\ fetches' = fetches
  /\ UNCHANGED << call, avatar, sv, dl, ld, deleted, fs, dirs, used, db, fsops >>

\* The response the avatar URL gave, with what process_avatar made of it.
Fetched(f, v) == [fetch |-> f, ok |-> v.ok, val |-> v.val, err |-> v.err]

\* A variant that forgets the upload once the avatar is there.
avatar_fetched_avatar_only(r, f) ==
  /\ pc[r] = "downloading"
  /\ LET v == process_avatar(f) IN
       /\ avatar' = [avatar EXCEPT ![r] = Some(Fetched(f, v))]
       /\ IF v.ok
          THEN /\ sv' = [sv EXCEPT ![r]["avatar"] = Spawned(v.val)]
               /\ pc' = [pc EXCEPT ![r] = "saving"]
               /\ UNCHANGED << imgres, resp >>
          ELSE /\ Returns(r, v)
               /\ sv' = sv
  /\ UNCHANGED << call, image, dl, ld, deleted, fs, dirs, used, db,
                  fsops, fetches >>

\* The fetch completes with outcome f and process_avatar runs to its end.
\* On Ok the validation phase is over and the saves are started: save(image)
\* when there was an upload, save(avatar) always.
avatar_fetched(r, f) ==
  /\ pc[r] = "downloading"
  /\ LET v == process_avatar(f) IN
       /\ avatar' = [avatar EXCEPT ![r] = Some(Fetched(f, v))]
       /\ IF v.ok
          THEN /\ sv' = [sv EXCEPT ![r] =
                    [k \in Kinds |->
                       IF k = "avatar" THEN Spawned(v.val)
                       ELSE IF IsSome(image[r]) THEN Spawned(Unwrap(image[r]).val)
                       ELSE NoTask]]
               /\ pc' = [pc EXCEPT ![r] = "saving"]
               /\ UNCHANGED << imgres, resp >>
          ELSE /\ Returns(r, v)
               /\ sv' = sv
  /\ UNCHANGED << call, image, dl, ld, deleted, fs, dirs, used, db,
                  fsops, fetches >>

(***************************************************************************)
(* save (images.rs): the closure run by spawn_blocking.                    *)
(***************************************************************************)
\* create_dir_all(d): d and every missing ancestor below the working
\* directory.
RECURSIVE Ancestors(_)
Ancestors(d) ==
  IF LastSlash(d, Len(d)) = 0 THEN {} ELSE {d} \cup Ancestors(parent(d))

Write(p, content) == [q \in Files \cup {p} |-> IF q = p THEN content ELSE fs[q]]
Remove(p) == [q \in Files \ {p} |-> fs[q]]

\* Path::new(Uuid::new_v4()), image_path.path() and create_dir_all(parent)?;
\* an io::Error becomes AppImageError::Io through the `?`.
save_create_dir(r, k, u, out) ==
  /\ sv[r][k].st = "spawned"
  /\ u \in new_v4(used)
  /\ used' = used \cup {u}
  /\ LET p == path(k, u) IN
       /\ fsops' = [fsops EXCEPT ![r] = @ \cup {FsOp("create_dir_all", parent(p))}]
       /\ IF out = "ok"
          THEN /\ dirs' = dirs \cup Ancestors(parent(p))
               /\ sv' = [sv EXCEPT ![r][k] = Task("dir", @.arg, u, p, Err("-"))]
          ELSE /\ dirs' = dirs
               /\ sv' = [sv EXCEPT ![r][k] = Task("done", @.arg, u, p, Raise("Io", PermissionDenied))]
  /\ UNCHANGED << pc, call, image, avatar, dl, ld, imgres, deleted, resp,
                  fs, db, fetches >>

\* image.save(path)?; Ok(image_path).  The library creates the file and
\* then writes the encoded image: a failure leaves either no file or a
\* truncated one.  image.save returns an ImageError, which the `?` turns
\* into AppImageError::Decode (the From impl that matches).
save_write(r, k, out) ==
  /\ sv[r][k].st = "dir"
  /\ LET t == sv[r][k] IN
       /\ fsops' = [fsops EXCEPT ![r] = @ \cup {FsOp("write", t.path)}]
       /\ fs' = IF out = "ok" THEN Write(t.path, encode_png(t.arg))
                ELSE IF out = "write_failed" THEN Write(t.path, Truncated)
                ELSE fs
       /\ sv' = [sv EXCEPT ![r][k] =
            Task("done", t.arg, t.uuid, t.path,
                 IF out = "ok" THEN Ok(t.uuid)
                 ELSE IF out = "write_failed" THEN Raise("Decode", NoSpace)
                 ELSE Raise("Decode", PermissionDenied))]
  /\ UNCHANGED << pc, call, image, avatar, dl, ld, imgres, deleted, resp,
                  dirs, used, db, fetches >>

Started(r) == { k \in Kinds : sv[r][k].st # "none" }
Failed(r) == { k \in Started(r) : sv[r][k].st = "done" /\ ~sv[r][k].res.ok }

SavedId(r, k) ==
  IF k \in Started(r) THEN Some(sv[r][k].res.val) ELSE None

\* `save(..).await?` and `try_join!(save(image), save(avatar))?`: the first
\* failed save the join sees ends process_images with its error; the other
\* blocking task is not awaited and runs on.
save_failed(r, k) ==
  /\ pc[r] = "saving"
  /\ k \in Failed(r)
  /\ Returns(r, sv[r][k].res)
  /\ UNCHANGED << call, image, avatar, sv, dl, ld, deleted,
                  fs, dirs, used, db, fsops, fetches >>

\* A join that answers Ok as soon as every save has ended and one of them
\* succeeded.
saves_done_any(r) ==
  /\ pc[r] = "saving"
  /\ \A k \in Started(r) : sv[r][k].st = "done"
  /\ \E k \in Started(r) : sv[r][k].res.ok
  /\ Returns(r, Ok(<< SavedId(r, "post"), SavedId(r, "avatar") >>))
  /\ UNCHANGED << call, image, avatar, sv, dl, ld, deleted,
                  fs, dirs, used, db, fsops, fetches >>

\* Every save that was started has returned Ok(image_path).
saves_done(r) ==
  /\ pc[r] = "saving"
  /\ \A k \in Started(r) : sv[r][k].st = "done" /\ sv[r][k].res.ok
  /\ Returns(r, Ok(<< SavedId(r, "post"), SavedId(r, "avatar") >>))
  /\ UNCHANGED << call, image, avatar, sv, dl, ld, deleted,
                  fs, dirs, used, db, fsops, fetches >>

(***************************************************************************)
(* Database::save and Database::delete (database.rs), one SQL statement    *)
(* each.                                                                   *)
(***************************************************************************)
PostIds == 1..MaxPosts

Row(id, image_uuid, avatar_uuid) ==
  [id |-> id, image_uuid |-> image_uuid, avatar_uuid |-> avatar_uuid]

\* A create that removes the files it saved when the insert fails.
db_save_cleanup(r, id, out) ==
  /\ pc[r] = "insert"
  /\ LET ids == Unwrap(imgres[r]).val
         saved == { sv[r][k].path : k \in Started(r) }
     IN
       IF out = "ok"
       THEN /\ id \notin { row.id : row \in db }
            /\ db' = db \cup {Row(id, ids[1], ids[2])}
            /\ resp' = [resp EXCEPT ![r] = Some(Ok(Row(id, ids[1], ids[2])))]
            /\ UNCHANGED << fs, fsops >>
       ELSE /\ db' = db
            /\ resp' = [resp EXCEPT ![r] =
                 Some(ServerFnError_from(Raise("Sql", "database failure")))]
            /\ fs' = [q \in Files \ saved |-> fs[q]]
            /\ fsops' = [fsops EXCEPT ![r] =
                 @ \cup { FsOp("remove_file", p) : p \in saved }]
  /\ pc' = [pc EXCEPT ![r] = "done"]
  /\ UNCHANGED << call, image, avatar, sv, dl, ld, imgres, deleted,
                  dirs, used, fetches >>

\* database.save(to_persist).await?; Ok(post).  The key is chosen by SQLite
\* among those no row has.
db_save(r, id, out) ==
  /\ pc[r] = "insert"
  /\ LET ids == Unwrap(imgres[r]).val IN
       IF out = "ok"
       THEN /\ id \notin { row.id : row \in db }
            /\ db' = db \cup {Row(id, ids[1], ids[2])}
            /\ resp' = [resp EXCEPT ![r] = Some(Ok(Row(id, ids[1], ids[2])))]
       ELSE /\ db' = db
            /\ resp' = [resp EXCEPT ![r] =
                 Some(ServerFnError_from(Raise("Sql", "database failure")))]
  /\ pc' = [pc EXCEPT ![r] = "done"]
  /\ UNCHANGED << call, image, avatar, sv, dl, ld, imgres, deleted,
                  fs, dirs, used, fsops, fetches >>

(***************************************************************************)
(* delete (images.rs) and delete_blog_post (api.rs).                       *)
(***************************************************************************)
\* remove_file(path) mapped through map_err(Into::into): Ok(()) when the
\* file was there, AppImageError::Io otherwise.
delete_result_lenient(existed) == Ok(<< >>)
delete_result(existed) == IF existed THEN Ok(<< >>) ELSE Raise("Io", NotFound)

\* First poll of delete(image_uuid): None => Ok(()); Some(image) derives
\* the path and hands remove_file to spawn_blocking.
DeleteCall_none_fails(k, o) ==
  IF IsSome(o)
  THEN Task("spawned", "-", Unwrap(o), path(k, Unwrap(o)), Err("-"))
  ELSE Task("done", "-", "-", "-", Err("Io"))

DeleteCall(k, o) ==
  IF IsSome(o)
  THEN Task("spawned", "-", Unwrap(o), path(k, Unwrap(o)), Err("-"))
  ELSE Task("done", "-", "-", "-", Ok(<< >>))

DeletePanics(o) == IsSome(o) /\ image_path_panics(Unwrap(o))

\* A client calls delete_blog_post(post_id).
delete_blog_post(r, post_id) ==
  /\ pc[r] = "idle"
  /\ pc' = [pc EXCEPT ![r] = "db_delete"]
  /\ call' = [call EXCEPT ![r] =
       [NoCall EXCEPT !.op = "delete_blog_post", !.post_id = post_id]]
  /\ UNCHANGED << image, avatar, sv, dl, ld, imgres, deleted, resp,
                  fs, dirs, used, db, fsops, fetches >>

\* A delete that reads the record and leaves it in the table.
db_delete_keeps_row(r, out) ==
  /\ pc[r] = "db_delete"
  /\ LET rows == { row \in db : row.id = call[r].post_id } IN
       IF out = "ok" /\ rows # {}
       THEN LET row == CHOOSE row \in rows : TRUE IN
              /\ db' = db
              /\ deleted' = [deleted EXCEPT ![r] = Some(row)]
              /\ IF DeletePanics(row.image_uuid) \/ DeletePanics(row.avatar_uuid)
                 THEN /\ pc' = [pc EXCEPT ![r] = "panicked"]
                      /\ dl' = dl
                 ELSE /\ pc' = [pc EXCEPT ![r] = "deleting"]
                      /\ dl' = [dl EXCEPT ![r] =
                           [k \in Kinds |->
                              IF k = "post" THEN DeleteCall(k, row.image_uuid)
                              ELSE DeleteCall(k, row.avatar_uuid)]]
              /\ resp' = resp
       ELSE /\ resp' = [resp EXCEPT ![r] =
                 Some(ServerFnError_from(Raise("Sql", "database failure")))]
            /\ pc' = [pc EXCEPT ![r] = "done"]
            /\ UNCHANGED << db, deleted, dl >>
  /\ UNCHANGED << call, image, avatar, sv, ld, imgres,
                  fs, dirs, used, fsops, fetches >>

\* A delete that answers Ok when there was nothing to delete or the
\* statement failed.
db_delete_lenient(r, out) ==
  /\ pc[r] = "db_delete"
  /\ LET rows == { row \in db : row.id = call[r].post_id } IN
       IF out = "ok" /\ rows # {}
       THEN LET row == CHOOSE row \in rows : TRUE IN
              /\ db' = db \ {row}
              /\ deleted' = [deleted EXCEPT ![r] = Some(row)]
              /\ IF DeletePanics(row.image_uuid) \/ DeletePanics(row.avatar_uuid)
                 THEN /\ pc' = [pc EXCEPT ![r] = "panicked"]
                      /\ dl' = dl
                 ELSE /\ pc' = [pc EXCEPT ![r] = "deleting"]
                      /\ dl' = [dl EXCEPT ![r] =
                           [k \in Kinds |->
                              IF k = "post" THEN DeleteCall(k, row.image_uuid)
                              ELSE DeleteCall(k, row.avatar_uuid)]]
              /\ resp' = resp
       ELSE /\ resp' = [resp EXCEPT ![r] =
                 Some(Ok(<< >>))]
            /\ pc' = [pc EXCEPT ![r] = "done"]
            /\ UNCHANGED << db, deleted, dl >>
  /\ UNCHANGED << call, image, avatar, sv, ld, imgres,
                  fs, dirs, used, fsops, fetches >>

\* database.delete(post_id).await?  followed by the first poll of
\* tokio::join!(delete(image_uuid), delete(avatar_uuid)).
db_delete(r, out) ==
  /\ pc[r] = "db_delete"
  /\ LET rows == { row \in db : row.id = call[r].post_id } IN
       IF out = "ok" /\ rows # {}
       THEN LET row == CHOOSE row \in rows : TRUE IN
              /\ db' = db \ {row}
              /\ deleted' = [deleted EXCEPT ![r] = Some(row)]
              /\ IF DeletePanics(row.image_uuid) \/ DeletePanics(row.avatar_uuid)
                 THEN /\ pc' = [pc EXCEPT ![r] = "panicked"]
                      /\ dl' = dl
                 ELSE /\ pc' = [pc EXCEPT ![r] = "deleting"]
                      /\ dl' = [dl EXCEPT ![r] =
                           [k \in Kinds |->
                              IF k = "post" THEN DeleteCall(k, row.image_uuid)
                              ELSE DeleteCall(k, row.avatar_uuid)]]
              /\ resp' = resp
       ELSE /\ resp' = [resp EXCEPT ![r] =
                 Some(ServerFnError_from(Raise("Sql", "database failure")))]
            /\ pc' = [pc EXCEPT ![r] = "done"]
            /\ UNCHANGED << db, deleted, dl >>
  /\ UNCHANGED << call, image, avatar, sv, ld, imgres,
                  fs, dirs, used, fsops, fetches >>

\* The blocking task of delete: std::fs::remove_file(path).
delete_remove_file(r, k) ==
  /\ dl[r][k].st = "spawned"
  /\ LET t == dl[r][k] IN
       /\ fsops' = [fsops EXCEPT ![r] = @ \cup {FsOp("remove_file", t.path)}]
       /\ fs' = IF t.path \in Files THEN Remove(t.path) ELSE fs
       /\ dl' = [dl EXCEPT ![r][k] =
            Task("done", "-", t.uuid, t.path, delete_result(t.path \in Files))]
  /\ UNCHANGED << pc, call, image, avatar, sv, ld, imgres, deleted, resp,
                  dirs, used, db, fetches >>

\* let _ = tokio::join!(..); Ok(())
delete_blog_post_result_propagating(image_res, avatar_res) ==
  IF image_res.ok /\ avatar_res.ok THEN Ok(<< >>)
  ELSE ServerFnError_from(IF image_res.ok THEN avatar_res ELSE image_res)
delete_blog_post_result(image_res, avatar_res) == Ok(<< >>)

\* Both delete futures have completed; the join returns and its value is
\* dropped.
delete_joined(r) ==
  /\ pc[r] = "deleting"
  /\ \A k \in Kinds : dl[r][k].st = "done"
  /\ resp' = [resp EXCEPT ![r] =
       Some(delete_blog_post_result(dl[r]["post"].res, dl[r]["avatar"].res))]
  /\ pc' = [pc EXCEPT ![r] = "done"]
  /\ UNCHANGED << call, image, avatar, sv, dl, ld, imgres, deleted,
                  fs, dirs, used, db, fsops, fetches >>

\* A uuid no save of the run produces.
NeverSaved == "00000000-0000-4000-8000-000000000000"

StoreIds == UuidPool \cup {NeverSaved}

\* A caller inside the server awaits images::delete::<k>(image_uuid)
\* directly.
delete(r, k, image_uuid) ==
  /\ pc[r] = "idle"
  /\ pc' = [pc EXCEPT ![r] = "delete"]
  /\ call' = [call EXCEPT ![r] =
       [NoCall EXCEPT !.op = "delete", !.kind = k, !.uuid = image_uuid]]
  /\ dl' = [dl EXCEPT ![r][k] = DeleteCall(k, image_uuid)]
  /\ UNCHANGED << image, avatar, sv, ld, imgres, deleted, resp,
                  fs, dirs, used, db, fsops, fetches >>

\* delete returns its Result to that caller.
delete_returned(r) ==
  /\ pc[r] = "delete"
  /\ dl[r][call[r].kind].st = "done"
  /\ resp' = [resp EXCEPT ![r] = Some(dl[r][call[r].kind].res)]
  /\ pc' = [pc EXCEPT ![r] = "done"]
  /\ UNCHANGED << call, image, avatar, sv, dl, ld, imgres, deleted,
                  fs, dirs, used, db, fsops, fetches >>

(***************************************************************************)
(* load (images.rs), load_post_image and load_avatar_image (api.rs).       *)
(***************************************************************************)
\* What a client can send as the `uuid` argument: PostImagePath and
\* AvatarImagePath deserialize from any string.
ClientStrings == UuidPool \cup {"ab", "../../x"}

\* STANDARD_NO_PAD.encode(&bytes)
Base64(bytes) == [b64 |-> bytes]

\* First poll of load(&uuid): image_uuid.path(), then spawn_blocking.
load(r, k, u) ==
  /\ pc[r] = "idle"
  /\ call' = [call EXCEPT ![r] =
       [NoCall EXCEPT !.op = "load", !.kind = k, !.uuid = Some(u)]]
  /\ IF image_path_panics(u)
     THEN /\ pc' = [pc EXCEPT ![r] = "panicked"]
          /\ ld' = ld
     ELSE /\ pc' = [pc EXCEPT ![r] = "loading"]
          /\ ld' = [ld EXCEPT ![r] = Task("spawned", "-", u, path(k, u), Err("-"))]
  /\ UNCHANGED << image, avatar, sv, dl, imgres, deleted, resp,
                  fs, dirs, used, db, fsops, fetches >>

load_post_image(r, uuid) == load(r, "post", uuid)

load_avatar_image(r, uuid) == load(r, "avatar", uuid)

\* std::fs::read(path) as load returns it: the whole content, or the
\* io::Error as AppImageError::Io.  `content` is << >> for a missing file
\* and << bytes >> for a file that is there; `out` is what the operating
\* system does with a read of a file that is there.
load_result_empty_when_missing(content, out) ==
  IF content = << >> THEN Ok(Bytes("empty", "-", "-"))
  ELSE IF out = "ok" THEN Ok(content[1])
  ELSE Raise("Io", PermissionDenied)
load_result(content, out) ==
  IF content = << >> THEN Raise("Io", NotFound)
  ELSE IF out = "ok" THEN Ok(content[1])
  ELSE Raise("Io", PermissionDenied)

\* A load that reads the file in the step of the handler and answers at
\* once.
load_read_inline(r, out) ==
  /\ ld[r].st = "spawned"
  /\ pc[r] = "loading"
  /\ LET t == ld[r]
         res == load_result(IF t.path \in Files THEN << fs[t.path] >> ELSE << >>, out)
     IN
       /\ fsops' = [fsops EXCEPT ![r] = @ \cup {FsOp("read", t.path)}]
       /\ ld' = [ld EXCEPT ![r] = Task("done", "-", t.uuid, t.path, res)]
       /\ resp' = [resp EXCEPT ![r] =
            Some(IF res.ok THEN Ok(Base64(res.val)) ELSE ServerFnError_from(res))]
       /\ pc' = [pc EXCEPT ![r] = "done"]
  /\ UNCHANGED << call, image, avatar, sv, dl, imgres, deleted,
                  fs, dirs, used, db, fetches >>

\* The blocking task of load: std::fs::read(path).
load_read(r, out) ==
  /\ ld[r].st = "spawned"
  /\ LET t == ld[r] IN
       /\ fsops' = [fsops EXCEPT ![r] = @ \cup {FsOp("read", t.path)}]
       /\ ld' = [ld EXCEPT ![r] =
            Task("done", "-", t.uuid, t.path,
                 load_result(IF t.path \in Files THEN << fs[t.path] >> ELSE << >>,
                             out))]
  /\ UNCHANGED << pc, call, image, avatar, sv, dl, imgres, deleted, resp,
                  fs, dirs, used, db, fetches >>

\* .map(|bytes| Base64.encode(&bytes)).map_err(Into::into)
load_returned(r) ==
  /\ pc[r] = "loading"
  /\ ld[r].st = "done"
  /\ resp' = [resp EXCEPT ![r] =
       Some(IF ld[r].res.ok THEN Ok(Base64(ld[r].res.val))
            ELSE ServerFnError_from(ld[r].res))]
  /\ pc' = [pc EXCEPT ![r] = "done"]
  /\ UNCHANGED << call, image, avatar, sv, dl, ld, imgres, deleted,
                  fs, dirs, used, db, fsops, fetches >>

(***************************************************************************)
(* The response has been sent; the handler slot takes the next request     *)
(* once the blocking tasks it started have ended.                          *)
(***************************************************************************)
finish(r) ==
  /\ pc[r] \in {"done", "panicked"}
  /\ \A k \in Kinds : sv[r][k].st \in {"none", "done"}
  /\ pc' = [pc EXCEPT ![r] = "idle"]
  /\ call' = [call EXCEPT ![r] = NoCall]
  /\ image' = [image EXCEPT ![r] = None]
  /\ avatar' = [avatar EXCEPT ![r] = None]
  /\ sv' = [sv EXCEPT ![r] = NoTasks]
  /\ dl' = [dl EXCEPT ![r] = NoTasks]
  /\ ld' = [ld EXCEPT ![r] = NoTask]
  /\ imgres' = [imgres EXCEPT ![r] = None]
  /\ deleted' = [deleted EXCEPT ![r] = None]
  /\ resp' = [resp EXCEPT ![r] = None]
  /\ fsops' = [fsops EXCEPT ![r] = {}]
  /\ fetches' = [fetches EXCEPT ![r] = 0]
  /\ UNCHANGED << fs, dirs, used, db >>

(***************************************************************************)
(* The server: requests arrive at the server functions of api.rs.          *)
(***************************************************************************)
Next ==
  \/ \E r \in Reqs, img \in UploadInputs, url \in AvatarInputs :
       create_blog_post(r, img, url)
  \/ \E r \in Reqs : process_images_none(r)
  \/ \E r \in Reqs : process_images_image(r)
  \/ \E r \in Reqs : process_images_avatar(r)
  \/ \E r \in Reqs : process_images_both(r)
  \/ \E r \in Reqs, f \in FetchOutcomes : avatar_fetched(r, f)
  \/ \E r \in Reqs, k \in Kinds, u \in UuidPool, out \in {"ok", "failed"} :
       save_create_dir(r, k, u, out)
  \/ \E r \in Reqs, k \in Kinds, out \in {"ok", "create_failed", "write_failed"} :
       save_write(r, k, out)
  \/ \E r \in Reqs, k \in Kinds : save_failed(r, k)
  \/ \E r \in Reqs : saves_done(r)
  \/ \E r \in Reqs, id \in PostIds, out \in {"ok", "failed"} : db_save(r, id, out)
  \/ \E r \in Reqs, post_id \in PostIds : delete_blog_post(r, post_id)
  \/ \E r \in Reqs, out \in {"ok", "failed"} : db_delete(r, out)
  \/ \E r \in Reqs, k \in Kinds : delete_remove_file(r, k)
  \/ \E r \in Reqs : delete_joined(r)
  \/ \E r \in Reqs, u \in ClientStrings : load_post_image(r, u)
  \/ \E r \in Reqs, u \in ClientStrings : load_avatar_image(r, u)
  \/ \E r \in Reqs, out \in {"ok", "unreadable"} : load_read(r, out)
  \/ \E r \in Reqs : load_returned(r)
  \/ \E r \in Reqs : finish(r)

Spec == Init /\ [][Next]_vars

(***************************************************************************)
(* The image store called directly as well: besides the server functions,  *)
(* code inside the server awaits images::delete itself.                    *)
(***************************************************************************)
NextStore ==
  \/ Next
  \/ \E r \in Reqs, k \in Kinds, o \in {None} \cup { Some(u) : u \in StoreIds } :
       delete(r, k, o)
  \/ \E r \in Reqs : delete_returned(r)

StoreSpec == Init /\ [][NextStore]_vars

(***************************************************************************)
(* Properties.                                                             *)
(***************************************************************************)
IsCreate(r) == call[r].op = "create_blog_post"
HasImage(r) == IsSome(call[r].image)
HasAvatar(r) == IsSome(call[r].avatar_url)

\* process_images has returned to create_blog_post.
Returned(r) == IsSome(imgres[r])
ReturnedOk(r) == Returned(r) /\ Unwrap(imgres[r]).ok
ReturnedErr(r, e) ==
  Returned(r) /\ ~Unwrap(imgres[r]).ok /\ Unwrap(imgres[r]).err = e

ImageValid(r) == IsSome(image[r]) /\ Unwrap(image[r]).ok
ImageInvalid(r) == IsSome(image[r]) /\ ~Unwrap(image[r]).ok
AvatarValid(r) == IsSome(avatar[r]) /\ Unwrap(avatar[r]).ok
AvatarInvalid(r) == IsSome(avatar[r]) /\ ~Unwrap(avatar[r]).ok

\* No directory creation and no file write was issued for request r, and
\* no save was started for it.
NothingSaved(r) == fsops[r] = {} /\ Started(r) = {}

\* A byte buffer is a valid PNG.
IsPng(b) == b.fmt = "png"

\* The storage path as the documentation of the store spells it.
StoragePath(kind_dir, id) ==
  "./images/" \o kind_dir \o "/" \o SubSeq(id, 1, 2) \o "/"
              \o SubSeq(id, 3, 4) \o "/" \o id \o ".png"

KindDir(k) == IF k = "post" THEN "posts" ELSE "avatars"

\* C1: in process_images with both inputs present, no save is started and
\* no directory creation or file write is issued before both validations
\* have succeeded; once a validation has failed, process_images has
\* returned an error and nothing was saved for either input.
C1_ValidateBeforeSave ==
  \A r \in Reqs :
    (IsCreate(r) /\ HasImage(r) /\ HasAvatar(r)) =>
      /\ ~NothingSaved(r) => (ImageValid(r) /\ AvatarValid(r))
      /\ (ImageInvalid(r) \/ AvatarInvalid(r)) =>
           /\ Returned(r) /\ ~ReturnedOk(r)
           /\ NothingSaved(r)

\* A request with both inputs whose upload was valid and whose avatar was
\* not has been answered.
C1_Witness ==
  \E r \in Reqs :
    /\ IsCreate(r) /\ HasImage(r) /\ HasAvatar(r)
    /\ ImageValid(r) /\ AvatarInvalid(r)
    /\ pc[r] = "done"

\* C2: whenever the upload is not a valid PNG (avatar URL absent or
\* present) or the body the avatar URL returned is not a valid PNG,
\* process_images fails with the Decode variant and no file-system call is
\* issued for the request.
C2_NonPngIsDecodeError ==
  \A r \in Reqs :
    IsCreate(r) =>
      /\ (HasImage(r) /\ ~IsPng(Unwrap(call[r].image))) =>
           /\ NothingSaved(r)
           /\ pc[r] # "process_images" => ReturnedErr(r, "Decode")
      /\ (IsSome(avatar[r]) /\ Unwrap(avatar[r]).fetch.net = "ok"
            /\ ~IsPng(Unwrap(avatar[r]).fetch.body)) =>
           /\ NothingSaved(r)
           /\ ReturnedErr(r, "Decode")

\* Both ways have happened: an invalid upload next to an avatar URL, and a
\* valid upload whose avatar URL returned something that is no PNG.
C2_Witness ==
  \E r1, r2 \in Reqs :
    /\ IsCreate(r1) /\ HasImage(r1) /\ HasAvatar(r1)
    /\ ~IsPng(Unwrap(call[r1].image)) /\ pc[r1] = "done"
    /\ IsCreate(r2) /\ HasImage(r2) /\ ImageValid(r2)
    /\ IsSome(avatar[r2]) /\ Unwrap(avatar[r2]).fetch.net = "ok"
    /\ ~IsPng(Unwrap(avatar[r2]).fetch.body) /\ pc[r2] = "done"

\* C3: when the avatar fetch fails at the network level or answers with a
\* non-success HTTP status, process_images fails with the Download variant,
\* after a single fetch and without any file-system call.
C3_FetchFailureIsDownloadError ==
  \A r \in Reqs :
    (IsCreate(r) /\ IsSome(avatar[r])
       /\ (Unwrap(avatar[r]).fetch.net # "ok"
           \/ Unwrap(avatar[r]).fetch.status \notin 200..299)) =>
      /\ ReturnedErr(r, "Download")
      /\ fetches[r] = 1
      /\ NothingSaved(r)

\* The identifiers process_images returned: << post image, avatar >>.
ReturnedIds(r) == Unwrap(imgres[r]).val

Present(r) ==
  (IF HasImage(r) THEN {"post"} ELSE {}) \cup (IF HasAvatar(r) THEN {"avatar"} ELSE {})

WritesOf(r) == { o \in fsops[r] : o.op = "write" }

\* C4: when process_images has returned Ok, a post-image identifier is
\* returned exactly when image bytes were present and an avatar identifier
\* exactly when an avatar URL was present, and one file write was issued
\* per present input; with both inputs absent the result is (None, None)
\* and neither a fetch nor a file-system call was issued.
C4_OneIdPerPresentInput ==
  \A r \in Reqs :
    (IsCreate(r) /\ ReturnedOk(r)) =>
      /\ IsSome(ReturnedIds(r)[1]) <=> HasImage(r)
      /\ IsSome(ReturnedIds(r)[2]) <=> HasAvatar(r)
      /\ Cardinality(WritesOf(r)) = Cardinality(Present(r))
      /\ Present(r) = {} =>
           /\ ReturnedIds(r) = << None, None >>
           /\ fetches[r] = 0
           /\ fsops[r] = {}

\* process_images has returned Ok for a request that carried both inputs.
C4_Witness ==
  \E r \in Reqs :
    IsCreate(r) /\ ReturnedOk(r) /\ HasImage(r) /\ HasAvatar(r)

\* process_images has just returned Ok to create_blog_post, which has not
\* gone on yet.
JustReturnedOk(r) == IsCreate(r) /\ pc[r] = "insert"

\* C5: at the return of a successful process_images, a file exists at
\* ./images/posts/<id[0:2]>/<id[2:4]>/<id>.png for the post-image identifier
\* it returns and at ./images/avatars/<id[0:2]>/<id[2:4]>/<id>.png for the
\* avatar identifier it returns.
C5_ReturnedIdHasFile ==
  \A r \in Reqs :
    JustReturnedOk(r) =>
      /\ IsSome(ReturnedIds(r)[1]) =>
           StoragePath("posts", Unwrap(ReturnedIds(r)[1])) \in Files
      /\ IsSome(ReturnedIds(r)[2]) =>
           StoragePath("avatars", Unwrap(ReturnedIds(r)[2])) \in Files

\* process_images has just returned an avatar identifier.
C5_Witness ==
  \E r \in Reqs : JustReturnedOk(r) /\ IsSome(ReturnedIds(r)[2])

\* C6: with a valid upload and a valid avatar, the two identifiers that
\* process_images returns differ, the two paths differ, and both files
\* exist when it returns.
C6_DistinctIdsBothFiles ==
  \A r \in Reqs :
    (JustReturnedOk(r) /\ HasImage(r) /\ HasAvatar(r)) =>
      LET post_image_id == Unwrap(ReturnedIds(r)[1])
          avatar_id == Unwrap(ReturnedIds(r)[2])
      IN /\ post_image_id # avatar_id
         /\ sv[r]["post"].path # sv[r]["avatar"].path
         /\ sv[r]["post"].path \in Files
         /\ sv[r]["avatar"].path \in Files

\* Both saves of one request have ended well and process_images has
\* returned.
C6_Witness ==
  \E r \in Reqs :
    /\ JustReturnedOk(r) /\ HasImage(r) /\ HasAvatar(r)
    /\ sv[r]["post"].res.ok /\ sv[r]["avatar"].res.ok

\* Every path derivation the store has made and not yet forgotten:
\* << kind, identifier, path >>.
Derived ==
  UNION { { << k, sv[r][k].uuid, sv[r][k].path >> : k \in { k \in Kinds : sv[r][k].path # "-" } }
          \cup { << k, dl[r][k].uuid, dl[r][k].path >> : k \in { k \in Kinds : dl[r][k].path # "-" } }
          \cup (IF ld[r].path # "-" THEN { << call[r].kind, ld[r].uuid, ld[r].path >> } ELSE {})
          : r \in Reqs }

\* Path::file_name(): the last component.
FileName(p) == SubSeq(p, LastSlash(p, Len(p)) + 1, Len(p))

\* The leading "./images/<kind_dir>/" of a path of the given kind.
DirPrefix(k, p) == SubSeq(p, 1, Len("./images/") + Len(KindDir(k)) + 1)

\* C7: for every kind and every identifier u of at least 4 characters the
\* derived path is ./images/<kind_dir>/<u[0:2]>/<u[2:4]>/<u>.png, with
\* kind_dir "posts" for post images and "avatars" for avatars; equal
\* (kind, u) give equal paths, and two kinds with the same u give different
\* directory prefixes and the same file name.
C7_PathDerivation ==
  \A d \in Derived :
    Len(d[2]) >= 4 =>
      /\ d[3] = StoragePath(KindDir(d[1]), d[2])
      /\ DirPrefix(d[1], d[3]) = "./images/" \o KindDir(d[1]) \o "/"
      /\ IsUuidString(d[2]) => FileName(d[3]) = d[2] \o ".png"
      /\ \A e \in Derived :
           d[2] = e[2] =>
             /\ d[1] = e[1] => d[3] = e[3]
             /\ d[1] # e[1] =>
                  /\ DirPrefix(d[1], d[3]) # DirPrefix(e[1], e[3])
                  /\ FileName(d[3]) = FileName(e[3])

\* The same identifier has been turned into a path once as a post image
\* and once as an avatar.
C7_Witness ==
  \E d, e \in Derived : d[2] = e[2] /\ d[1] # e[1] /\ IsUuidString(d[2])

\* C8: every identifier from which save, load or delete derives a path is
\* a UUID string that a save of the store has generated.
C8_OnlyStoreGeneratedIds ==
  /\ \A d \in Derived : IsUuidString(d[2]) /\ d[2] \in used
  /\ \A r \in Reqs :
       call[r].op = "load" =>
         IsUuidString(Unwrap(call[r].uuid)) /\ Unwrap(call[r].uuid) \in used

\* C9: once the database deletion of delete_blog_post has succeeded, the
\* server function does not panic and answers Ok, whatever the two file
\* deletions returned.
C9_DeletePostIgnoresCleanup ==
  \A r \in Reqs :
    (call[r].op = "delete_blog_post" /\ IsSome(deleted[r])) =>
      /\ pc[r] # "panicked"
      /\ pc[r] = "done" => (IsSome(resp[r]) /\ Unwrap(resp[r]).ok)

\* delete_blog_post has answered although a file deletion returned an Io
\* error.
C9_Witness ==
  \E r \in Reqs, k \in Kinds :
    /\ call[r].op = "delete_blog_post" /\ pc[r] = "done"
    /\ dl[r][k].st = "done" /\ ~dl[r][k].res.ok /\ dl[r][k].res.err = "Io"

DeleteArgs(r, k) ==
  IF call[r].op = "delete" /\ call[r].kind = k THEN { call[r].uuid }
  ELSE IF call[r].op = "delete_blog_post" /\ IsSome(deleted[r]) /\ pc[r] # "panicked"
       THEN { IF k = "post" THEN Unwrap(deleted[r]).image_uuid
              ELSE Unwrap(deleted[r]).avatar_uuid }
       ELSE {}

RemovalsOf(r) == { o \in fsops[r] : o.op = "remove_file" }

\* C11: delete(None) has returned Ok at once: no path was derived, no
\* blocking task was spawned, and no file-system call was issued for it (a
\* direct call issues none at all; in delete_blog_post the only removal is
\* the one of the other kind, when that identifier is present).
C11_DeleteNoneIsNoOp ==
  \A r \in Reqs, k \in Kinds :
    None \in DeleteArgs(r, k) =>
      /\ dl[r][k].st = "done"
      /\ dl[r][k].res.ok
      /\ dl[r][k].path = "-"
      /\ call[r].op = "delete" =>
           /\ fsops[r] = {}
           /\ pc[r] = "done" => Unwrap(resp[r]).ok
      /\ call[r].op = "delete_blog_post" =>
           \A o \in RemovalsOf(r) :
             \E j \in Kinds \ {k} : dl[r][j].path = o.path

\* A direct delete(None) has returned to its caller while files exist.
C11_Witness ==
  \E r \in Reqs :
    /\ call[r].op = "delete" /\ call[r].uuid = None
    /\ pc[r] = "done" /\ Unwrap(resp[r]).ok
    /\ Files # {}

\* C12: the step in which load(id) reads its file: a file that exists at
\* the derived path is returned whole, unless the operating system refuses
\* the read; a missing or unreadable file gives the Io variant as a value;
\* the handler does not panic and files and directories stay as they were.
C12_LoadPrimitive ==
  [][ \A r \in Reqs :
        (ld[r].st = "spawned" /\ ld'[r].st = "done") =>
          LET p == StoragePath(KindDir(call[r].kind), ld[r].uuid)
              res == ld'[r].res
          IN /\ fs' = fs /\ dirs' = dirs
             /\ pc'[r] # "panicked"
             /\ IF p \in DOMAIN fs
                THEN \/ res.ok /\ res.val = fs[p]
                     \/ ~res.ok /\ res.err = "Io" /\ res.msg = PermissionDenied
                ELSE ~res.ok /\ res.err = "Io" /\ res.msg = NotFound
    ]_vars

\* One load has returned the content of a saved file to its server
\* function and another has returned the Io variant.
C12_Witness ==
  \E r1, r2 \in Reqs :
    /\ call[r1].op = "load" /\ ld[r1].st = "done" /\ ld[r1].res.ok
    /\ ld[r1].uuid \in used /\ pc[r1] = "done"
    /\ call[r2].op = "load" /\ ld[r2].st = "done" /\ ~ld[r2].res.ok
    /\ ld[r2].res.err = "Io"

\* The bytes that were handed to the store for the save of kind k of
\* request r: the upload, or the body the avatar URL returned.
SavedInput(r, k) ==
  IF k = "post" THEN Unwrap(call[r].image) ELSE Unwrap(avatar[r]).fetch.body

\* C13: when a load of the identifier that a save returned succeeds (no
\* delete of it came in between), the loaded bytes are a valid PNG with the
\* pixel content of the bytes that were saved.
C13_RoundTrip ==
  \A r1, r2 \in Reqs, k \in Kinds :
    ( /\ sv[r1][k].st = "done" /\ sv[r1][k].res.ok
      /\ call[r2].op = "load" /\ call[r2].kind = k
      /\ ld[r2].st = "done" /\ ld[r2].res.ok
      /\ ld[r2].uuid = sv[r1][k].res.val ) =>
      /\ IsPng(SavedInput(r1, k))
      /\ IsPng(ld[r2].res.val)
      /\ ld[r2].res.val.pixels = SavedInput(r1, k).pixels

\* An avatar that was fetched and saved has been loaded again; the loaded
\* bytes are not the fetched bytes.
C13_Witness ==
  \E r1, r2 \in Reqs :
    /\ sv[r1]["avatar"].st = "done" /\ sv[r1]["avatar"].res.ok
    /\ call[r2].op = "load" /\ call[r2].kind = "avatar"
    /\ ld[r2].st = "done" /\ ld[r2].res.ok
    /\ ld[r2].uuid = sv[r1]["avatar"].res.val
    /\ ld[r2].res.val # SavedInput(r1, "avatar")

\* C14: a save that failed on the file system, in create_dir_all or in the
\* write of the PNG file, has returned the Io variant after one attempt
\* (one create_dir_all, at most one write), and process_images, once it has
\* returned, has returned an error.
C14_SaveFailureIsIoError ==
  \A r \in Reqs, k \in Kinds :
    (sv[r][k].st = "done" /\ ~sv[r][k].res.ok) =>
      /\ sv[r][k].res.err = "Io"
      /\ Cardinality({ o \in fsops[r] : o.path = sv[r][k].path }) <= 1
      /\ Returned(r) => ~ReturnedOk(r)

\* The server function of request r has answered with an error.
Answered(r) == pc[r] = "done" /\ IsSome(resp[r])
AnsweredErr(r) == Answered(r) /\ ~Unwrap(resp[r]).ok

\* C15: create_blog_post answers a Decode or Download error of
\* process_images with a client-error status and an Io error with a
\* server-error status, and never both classes with the same status.
C15_ErrorClasses ==
  /\ \A r \in Reqs :
       (IsCreate(r) /\ AnsweredErr(r) /\ Returned(r) /\ ~ReturnedOk(r)) =>
         /\ Unwrap(imgres[r]).err \in {"Decode", "Download"} =>
              StatusOf(Unwrap(resp[r])) \in 400..499
         /\ Unwrap(imgres[r]).err = "Io" =>
              StatusOf(Unwrap(resp[r])) \in 500..599
  /\ \A r1, r2 \in Reqs :
       ( /\ IsCreate(r1) /\ AnsweredErr(r1) /\ Returned(r1) /\ ~ReturnedOk(r1)
         /\ IsCreate(r2) /\ AnsweredErr(r2) /\ Returned(r2) /\ ~ReturnedOk(r2)
         /\ Unwrap(imgres[r1]).err \in {"Decode", "Download"}
         /\ Unwrap(imgres[r2]).err = "Io" ) =>
         StatusOf(Unwrap(resp[r1])) # StatusOf(Unwrap(resp[r2]))

\* The file-system failure that made the server function of request r
\* answer with an error, if any: the failed read of a load, or the failed
\* save whose error process_images returned.
IoFailures(r) ==
  IF call[r].op = "load"
  THEN (IF ld[r].st = "done" /\ ~ld[r].res.ok THEN { ld[r].res } ELSE {})
  ELSE IF IsCreate(r) /\ Returned(r) /\ ~ReturnedOk(r)
       THEN { sv[r][k].res : k \in { j \in Failed(r) : sv[r][j].res = Unwrap(imgres[r]) } }
       ELSE {}

\* C16: the content of an error answer does not depend on the message of
\* the I/O error behind it: two answers of the same server function to
\* file-system failures have the same content, and none carries the
\* message of the operating system.
C16_NoIoMessageInResponse ==
  /\ \A r \in Reqs :
       (AnsweredErr(r) /\ IoFailures(r) # {}) =>
         \A e \in IoFailures(r) : Unwrap(resp[r]).msg # Display(e)
  /\ \A r1, r2 \in Reqs :
       ( /\ AnsweredErr(r1) /\ IoFailures(r1) # {}
         /\ AnsweredErr(r2) /\ IoFailures(r2) # {}
         /\ call[r1].op = call[r2].op ) =>
         Unwrap(resp[r1]).msg = Unwrap(resp[r2]).msg

\* The identifiers the rows of the database and the answers refer to.
ReferredIds ==
  UNION { { row.image_uuid, row.avatar_uuid } : row \in db }
    \cup UNION { IF IsCreate(r) /\ Answered(r) /\ Unwrap(resp[r]).ok
                 THEN { Unwrap(resp[r]).val.image_uuid, Unwrap(resp[r]).val.avatar_uuid }
                 ELSE {} : r \in Reqs }

\* C17: when both saves of a process_images call were started and one of
\* them failed, process_images returns an error without any identifier,
\* no removal is issued for the request, and the file the other save wrote
\* stays on disk with its content while no record and no answer refers to
\* its identifier.
C17_FailedSaveNoRollback ==
  \A r \in Reqs, k \in Kinds :
    (IsCreate(r) /\ Started(r) = Kinds /\ k \in Failed(r) /\ Returned(r)) =>
      /\ ~ReturnedOk(r)
      /\ ReturnedIds(r) = << >>
      /\ RemovalsOf(r) = {}
      /\ \A j \in Kinds \ {k} :
           (sv[r][j].st = "done" /\ sv[r][j].res.ok) =>
             /\ sv[r][j].path \in Files
             /\ fs[sv[r][j].path] = encode_png(sv[r][j].arg)
             /\ Some(sv[r][j].uuid) \notin ReferredIds

\* One save failed, the request was answered with the error, and the file
\* of the other save is on disk.
C17_Witness ==
  \E r \in Reqs, k \in Kinds :
    /\ IsCreate(r) /\ Started(r) = Kinds /\ k \in Failed(r)
    /\ AnsweredErr(r)
    /\ \E j \in Kinds \ {k} :
         sv[r][j].st = "done" /\ sv[r][j].res.ok /\ sv[r][j].path \in Files

\* The save tasks that have drawn their identifier.
Saves == { << r, k >> \in Reqs \X Kinds : sv[r][k].st \in {"dir", "done"} }

\* C18: under any interleaving of the requests, two saves never have the
\* same identifier or path, every identifier of a save is one no earlier
\* save was given, a save that has not written yet finds no file at its
\* path, and a save waits for no other save: its write can always be taken.
C18_SavesNeverShareAPath ==
  /\ \A s, t \in Saves :
       s # t => /\ sv[s[1]][s[2]].uuid # sv[t[1]][t[2]].uuid
                /\ sv[s[1]][s[2]].path # sv[t[1]][t[2]].path
  /\ \A s \in Saves :
       /\ sv[s[1]][s[2]].uuid \in used
       /\ sv[s[1]][s[2]].path = path(s[2], sv[s[1]][s[2]].uuid)
       /\ sv[s[1]][s[2]].st = "dir" =>
            /\ sv[s[1]][s[2]].path \notin Files
            /\ ENABLED save_write(s[1], s[2], "ok")

\* Saves of two different requests are between their directory creation
\* and their write at the same time.
C18_Witness ==
  \E r1, r2 \in Reqs, k1, k2 \in Kinds :
    /\ r1 # r2 /\ IsCreate(r1) /\ IsCreate(r2)
    /\ sv[r1][k1].st = "dir" /\ sv[r2][k2].st = "dir"
    /\ sv[r1][k1].path # sv[r2][k2].path

\* The step issues a file-system call on behalf of request r.
FsOpStep(r) == fsops'[r] \ fsops[r] # {}

\* The step is one of a blocking task spawned for request r: a task that
\* had been handed to spawn_blocking moves on.
BlockingTaskStep(r) ==
  \/ \E k \in Kinds : sv[r][k].st \in {"spawned", "dir"} /\ sv'[r][k] # sv[r][k]
  \/ \E k \in Kinds : dl[r][k].st = "spawned" /\ dl'[r][k].st = "done"
  \/ ld[r].st = "spawned" /\ ld'[r].st = "done"

\* C19: every step that issues a file-system call (create_dir_all and the
\* write of save, the read of load, the remove_file of delete) or changes
\* the files or directories is the step of a blocking task that had been
\* spawned before; it is never a step of a request handler: no handler
\* moves and no answer is produced in it.
C19_FsOpsOnBlockingTasks ==
  [][ /\ \A r \in Reqs :
           FsOpStep(r) => /\ BlockingTaskStep(r)
                          /\ pc' = pc
                          /\ resp' = resp
                          /\ imgres' = imgres
      /\ (fs' # fs \/ dirs' # dirs) => \E r \in Reqs : FsOpStep(r) ]_vars

\* A save has written its file and a load has read while the handlers of
\* both requests are still suspended.
C19_Witness ==
  \E r1, r2 \in Reqs :
    /\ pc[r1] = "saving" /\ WritesOf(r1) # {}
    /\ pc[r2] = "loading" /\ { o \in fsops[r2] : o.op = "read" } # {}

\* The files a record refers to.
FilesOf(row) ==
  (IF IsSome(row.image_uuid)
   THEN { StoragePath("posts", Unwrap(row.image_uuid)) } ELSE {})
    \cup (IF IsSome(row.avatar_uuid)
          THEN { StoragePath("avatars", Unwrap(row.avatar_uuid)) } ELSE {})

\* C20: under any interleaving of the requests, every identifier in a
\* record of the database has a file, a complete PNG, at the path derived
\* from it: a record is inserted only when its files are there, and a file
\* is removed only when no record refers to it.
C20_RecordsHaveFiles ==
  /\ [](\A row \in db : \A p \in FilesOf(row) : p \in Files /\ IsPng(fs[p]))
  /\ [][ /\ \A row \in db' \ db : FilesOf(row) \subseteq Files
         /\ \A p \in Files \ DOMAIN fs' :
              \A row \in db : p \notin FilesOf(row) ]_vars

\* A record with both identifiers is in the table while a delete request
\* for it is under way.
C20_Witness ==
  \E row \in db, r \in Reqs :
    /\ IsSome(row.image_uuid) /\ IsSome(row.avatar_uuid)
    /\ FilesOf(row) \subseteq Files
    /\ pc[r] = "db_delete" /\ call[r].post_id = row.id

\* The insert of create_blog_post for request r failed: the images were
\* processed with success and the answer is an error.
InsertFailed(r) == IsCreate(r) /\ ReturnedOk(r) /\ AnsweredErr(r)

\* C21: when process_images succeeded and the insert of the record then
\* fails, create_blog_post answers with an error, the step of the failed
\* insert leaves the table as it was, no removal is issued for the
\* request, and every file the request saved stays on disk with its
\* content while no record refers to its identifier.
C21_InsertFailureLeavesFiles ==
  /\ [](\A r \in Reqs :
          InsertFailed(r) =>
            /\ RemovalsOf(r) = {}
            /\ \A k \in Started(r) :
                 /\ sv[r][k].path \in Files
                 /\ fs[sv[r][k].path] = encode_png(sv[r][k].arg)
                 /\ \A row \in db :
                      Some(sv[r][k].uuid) \notin { row.image_uuid, row.avatar_uuid })
  /\ [][ \A r \in Reqs :
           (pc[r] = "insert" /\ pc'[r] = "done") =>
             \/ /\ db' # db
                /\ Unwrap(resp'[r]).ok
             \/ /\ db' = db
                /\ ~Unwrap(resp'[r]).ok
                /\ fs' = fs ]_vars

\* Both images were saved, the insert failed, and the files are on disk.
C21_Witness ==
  \E r \in Reqs :
    /\ InsertFailed(r) /\ Started(r) = Kinds
    /\ \A k \in Kinds : sv[r][k].path \in Files
    /\ db = {}

IsDeletePost(r) == call[r].op = "delete_blog_post"

\* C22: when the deletion of the record fails in delete_blog_post (no
\* record has the id, or the statement fails), the step leaves the table,
\* the files and the directories as they were and the answer is an error;
\* a delete_blog_post that answered with an error has received no record,
\* started no delete of an image and issued no file-system call.
C22_FailedDeleteChangesNothing ==
  /\ [](\A r \in Reqs :
          (IsDeletePost(r) /\ AnsweredErr(r)) =>
            /\ deleted[r] = None
            /\ dl[r] = NoTasks
            /\ fsops[r] = {})
  /\ [][ \A r \in Reqs :
           (pc[r] = "db_delete" /\ pc'[r] # "db_delete" /\ db' = db) =>
             /\ pc'[r] = "done"
             /\ ~Unwrap(resp'[r]).ok
             /\ fs' = fs /\ dirs' = dirs
             /\ dl' = dl /\ fsops' = fsops ]_vars

\* A delete_blog_post was answered with an error while a record with its
\* files was in the store.
C22_Witness ==
  \E r \in Reqs :
    /\ IsDeletePost(r) /\ AnsweredErr(r)
    /\ \E row \in db : FilesOf(row) # {} /\ FilesOf(row) \subseteq Files

====
